---- MODULE Spec2Model ----
(***************************************************************************)
(* planter: a terminal visualizer that walks a directory tree, reveals it  *)
(* depth by depth, and lets the user scroll, select and preview folders.   *)
(* The module models src/main.rs: App::new, the App methods and run_app.   *)
(*                                                                         *)
(* Conventions.                                                            *)
(*  - Indices are 0-based as in the code; a Vec v is a sequence and v[i]   *)
(*    of the code is v[i + 1] here.                                        *)
(*  - Option<T> is a sequence of length at most one: None is << >>,        *)
(*    Some(x) is << x >>.                                                  *)
(*  - A path is the sequence of its components below (and including) the   *)
(*    root, the root being << 0 >>; a name is a natural number, ordered as *)
(*    the strings it stands for.                                           *)
(*  - An Instant is kept as its age, the milliseconds elapsed since it was *)
(*    taken, saturated at the threshold the code compares it with:         *)
(*    Instant::now() is age 0 and duration_since / elapsed is the age.     *)
(***************************************************************************)
EXTENDS Integers, Sequences, FiniteSets, TLC

(* ------------------------------ bounds -------------------------------- *)

\* Entries (root included) of the filesystem walks App::new is run on.
MaxEntries == 3
\* Largest terminal height.
MaxTermHeight == 6
\* Milliseconds by which one passage of time advances the clock.
ClockStep == 250
\* Largest `lines` argument scroll_preview_down is called with.
MaxLines == 2
\* Input events the terminal holds unread.
MaxPending == 1
\* Entries (root included) of the walks App::new alone is run on, their
\* directories listed in the order of the names.
MaxBuildEntries == 6
\* Entries (root included) of the walks App::new alone is run on, their
\* directories listed in any order.
MaxListed == 4
\* Entries (root included) of the walks the selection is moved over.
MaxSelectEntries == 5

(* ------------------------- program constants -------------------------- *)

animation_speed == 10
DoubleClickMs == 500
FrameCount == 3
PageLines == 10
ViewportMargin == 4

(* -------------------------- Option, helpers --------------------------- *)

None == << >>
Some(x) == << x >>
IsSome(o) == Len(o) = 1
Unwrap(o) == o[1]

Min(a, b) == IF a < b THEN a ELSE b
\* usize::saturating_sub
saturating_sub(a, b) == IF a > b THEN a - b ELSE 0

Front(s) == SubSeq(s, 1, Len(s) - 1)
Last(s) == s[Len(s)]

(* ------------------------- the filesystem walk ------------------------ *)

\* Path::parent
Parent(p) == Front(p)
\* DirEntry::depth
Depth(p) == Len(p) - 1

Prefixes(p) == {SubSeq(p, 1, k) : k \in 1..Len(p)}

\* The directories a pre-order walk can still add an entry to after w: the
\* ancestors of its last entry, and that entry itself when it is a directory.
OpenDirs(w) ==
    LET l == Last(w)
    IN  IF l.is_dir THEN Prefixes(l.path) ELSE Prefixes(l.path) \ {l.path}

Names == 1..(MaxEntries - 1)

Extend(w) ==
    {Append(w, [path |-> Append(x[1], x[2]), is_dir |-> x[3]]) :
        x \in {y \in OpenDirs(w) \X Names \X BOOLEAN :
                  \A i \in 1..Len(w) : w[i].path # Append(y[1], y[2])}}

RECURSIVE WalksOfLen(_)
WalksOfLen(n) ==
    IF n = 1 THEN {<< [path |-> << 0 >>, is_dir |-> TRUE] >>}
    ELSE UNION {Extend(w) : w \in WalksOfLen(n - 1)}

\* The names below one directory are an initial segment 1..k: any other walk
\* is one of these with its names renamed in order.
Canonical(w) ==
    \A i \in 1..Len(w) :
        LET n == Last(w[i].path)
        IN  Len(w[i].path) > 1 /\ n > 1 =>
                \E j \in 1..Len(w) : w[j].path = Append(Parent(w[i].path), n - 1)

\* What WalkDir::new(path).follow_links(false) yields (errors dropped): the
\* root first, every entry after its parent, a directory's subtree contiguous.
Walks == {w \in UNION {WalksOfLen(n) : n \in 1..MaxEntries} : Canonical(w)}

\* The walk lists the children of every directory in the order of their
\* names. The order of a listing reaches the App only through the sort of
\* update_preview, whose result does not depend on it (the names below one
\* directory differ), so the operations behave on any walk as on the one
\* of these that renames it.
ListedInOrder(w) ==
    \A i, j \in 1..Len(w) :
        (i < j /\ Parent(w[i].path) = Parent(w[j].path)) =>
            Last(w[i].path) < Last(w[j].path)

OrderedWalks == {w \in Walks : ListedInOrder(w)}

\* The walks of n entries that list every directory in the order of its
\* names, built entry by entry: the next entry of a directory takes the
\* next name.
NextName(w, d) == Cardinality({i \in 1..Len(w) : Parent(w[i].path) = d}) + 1

OrderedExtend(w) ==
    {Append(w, [path |-> Append(d, NextName(w, d)), is_dir |-> b]) :
        d \in OpenDirs(w), b \in BOOLEAN}

RECURSIVE OrderedWalksOfLen(_)
OrderedWalksOfLen(n) ==
    IF n = 1 THEN {<< [path |-> << 0 >>, is_dir |-> TRUE] >>}
    ELSE UNION {OrderedExtend(w) : w \in OrderedWalksOfLen(n - 1)}

\* The walks of n entries over the given names, listed in any order.
ExtendN(w, names) ==
    {Append(w, [path |-> Append(x[1], x[2]), is_dir |-> x[3]]) :
        x \in {y \in OpenDirs(w) \X names \X BOOLEAN :
                  \A i \in 1..Len(w) : w[i].path # Append(y[1], y[2])}}

RECURSIVE WalksOfLenN(_, _)
WalksOfLenN(n, names) ==
    IF n = 1 THEN {<< [path |-> << 0 >>, is_dir |-> TRUE] >>}
    ELSE UNION {ExtendN(w, names) : w \in WalksOfLenN(n - 1, names)}

ListedWalks ==
    {w \in UNION {WalksOfLenN(n, 1..(MaxListed - 1)) : n \in 1..MaxListed} :
        Canonical(w)}

\* The walk of a root that cannot be read any more (removed since main
\* found it): its only item is an error, which filter_map(|e| e.ok()) of
\* line 87 drops.
FailedWalk == << >>

\* The walks App::new alone is run on: the larger trees listed in order,
\* the smaller ones in every order.
BuildWalks ==
    UNION {OrderedWalksOfLen(n) : n \in 1..MaxBuildEntries}
        \cup ListedWalks \cup {FailedWalk}

\* The walks the selection is moved over.
SelectWalks ==
    UNION {OrderedWalksOfLen(n) : n \in 1..MaxSelectEntries} \cup {FailedWalk}

(* ------------------------------ state --------------------------------- *)

VARIABLES
    walk,                   \* the filesystem, as the walk of it
    term_height,            \* terminal.size()?.height
    nodes,                  \* App.nodes
    stats,                  \* App.stats
    animation_depth,        \* App.animation_depth
    animation_complete,     \* App.animation_complete
    animation_frame,        \* App.animation_frame
    scroll_offset,          \* App.scroll_offset
    selected_index,         \* App.selected_index
    preview_contents,       \* App.preview_contents
    preview_scroll_offset,  \* App.preview_scroll_offset
    last_click_time,        \* App.last_click_time (Option of an age)
    last_click_index,       \* App.last_click_index
    last_tick,              \* run_app's last_tick (an age)
    pc,                     \* run_app's position
    pending,                \* input events the terminal holds unread
    reads,                  \* event::read() calls returned in this iteration
    last_event,             \* the event the latest of them returned
    clicked,                \* the row run_app passed to handle_mouse_click in it
    panicked,               \* the process aborted on an arithmetic overflow
    ticks,                  \* calls of increment_animation so far
    last_op,                \* the operation the program performed last
    opened,                 \* the node that operation called opener::open on
    prior_click             \* last_click_index as that operation found it,
                            \* when it is handle_mouse_click

envVars == << walk, term_height, nodes, stats >>
animVars == << animation_depth, animation_complete, animation_frame, ticks >>
previewVars == << preview_contents, preview_scroll_offset >>
clickVars == << last_click_time, last_click_index >>
logVars == << reads, last_event, clicked >>
loopVars == << last_tick, pc, pending, logVars >>
histVars == << last_op, opened, prior_click >>

vars == << walk, term_height, nodes, stats, animation_depth,
           animation_complete, animation_frame, scroll_offset, selected_index,
           preview_contents, preview_scroll_offset, last_click_time,
           last_click_index, last_tick, pc, pending, reads, last_event,
           clicked, panicked, ticks, last_op, opened, prior_click >>

(* ------------------------------ App::new ------------------------------ *)

RECURSIVE SeqMax(_)
SeqMax(s) == IF s = << >> THEN 0
             ELSE LET m == SeqMax(Front(s)) IN IF Last(s) > m THEN Last(s) ELSE m

\* BuildStats with line 95 not counting the root.
BuildStats_noroot(w) ==
    [ total_files |-> Cardinality({i \in 1..Len(w) : ~w[i].is_dir}),
      total_dirs  |-> Cardinality({i \in 2..Len(w) : w[i].is_dir}),
      max_depth   |-> SeqMax([i \in 1..Len(w) |-> Depth(w[i].path)]) ]

\* BuildStats with lines 103-105 inside the `if is_dir` of line 94.
BuildStats_dirs(w) ==
    [ total_files |-> Cardinality({i \in 1..Len(w) : ~w[i].is_dir}),
      total_dirs  |-> Cardinality({i \in 1..Len(w) : w[i].is_dir}),
      max_depth   |-> SeqMax([i \in 1..Len(w) |->
                                IF w[i].is_dir THEN Depth(w[i].path) ELSE 0]) ]

\* Lines 76-105: the statistics, counted over every entry of the walk.
BuildStats(w) ==
    [ total_files |-> Cardinality({i \in 1..Len(w) : ~w[i].is_dir}),
      total_dirs  |-> Cardinality({i \in 1..Len(w) : w[i].is_dir}),
      max_depth   |-> SeqMax([i \in 1..Len(w) |-> Depth(w[i].path)]) ]

IsDirEntry(e) == e.is_dir

\* CollectNodes with line 113 inserting at the front instead of pushing.
CollectNodes_front(w) ==
    LET dirs == SelectSeq(w, IsDirEntry)
    IN  [i \in 1..Len(dirs) |->
            [ path |-> dirs[Len(dirs) + 1 - i].path,
              name |-> Last(dirs[Len(dirs) + 1 - i].path),
              is_dir |-> TRUE, depth |-> Depth(dirs[Len(dirs) + 1 - i].path),
              is_last_child |-> FALSE ]]

\* Lines 107-126: only the directories become nodes.
CollectNodes(w) ==
    LET dirs == SelectSeq(w, IsDirEntry)
    IN  [i \in 1..Len(dirs) |->
            [ path |-> dirs[i].path, name |-> Last(dirs[i].path),
              is_dir |-> TRUE, depth |-> Depth(dirs[i].path),
              is_last_child |-> FALSE ]]

\* ScanIsLast with line 137 comparing with <= instead of <.
RECURSIVE ScanIsLast_le(_, _, _)
ScanIsLast_le(ns, i, j) ==
    IF j > Len(ns) THEN TRUE
    ELSE IF ns[j].depth <= ns[i].depth THEN TRUE
    ELSE IF ns[j].depth = ns[i].depth /\ Parent(ns[j].path) = Parent(ns[i].path)
         THEN FALSE
    ELSE ScanIsLast_le(ns, i, j + 1)

\* Lines 135-147: the inner loop over j, for node i (both 1-based here).
RECURSIVE ScanIsLast(_, _, _)
ScanIsLast(ns, i, j) ==
    IF j > Len(ns) THEN TRUE
    ELSE IF ns[j].depth < ns[i].depth THEN TRUE
    ELSE IF ns[j].depth = ns[i].depth /\ Parent(ns[j].path) = Parent(ns[i].path)
         THEN FALSE
    ELSE ScanIsLast(ns, i, j + 1)

\* Lines 129-149.
ComputeIsLastChild(ns) ==
    [i \in 1..Len(ns) |-> [ns[i] EXCEPT !.is_last_child = ScanIsLast(ns, i, i + 1)]]

BuildNodes(w) == ComputeIsLastChild(CollectNodes(w))

(* ---------------------------- update_preview -------------------------- *)

\* fs::read_dir(node_path): the immediate children, in the order the
\* filesystem lists them.
ReadDir(w, p) ==
    LET IsChild(e) == Parent(e.path) = p
        kids == SelectSeq(w, IsChild)
    IN  [i \in 1..Len(kids) |-> [name |-> Last(kids[i].path), is_dir |-> kids[i].is_dir]]

\* PreviewLess comparing the names only (line 362 for every pair).
PreviewLess_name(a, b) == a.name < b.name

\* Lines 358-364: the comparator of sort_by, as "a sorts strictly before b".
PreviewLess(a, b) ==
    IF a.is_dir /\ ~b.is_dir THEN TRUE
    ELSE IF ~a.is_dir /\ b.is_dir THEN FALSE
    ELSE a.name < b.name

\* A stable sort under PreviewLess (slice::sort_by is stable).
RECURSIVE InsertItem(_, _)
InsertItem(s, x) ==
    IF s = << >> THEN << x >>
    ELSE IF PreviewLess(x, Last(s)) THEN Append(InsertItem(Front(s), x), Last(s))
    ELSE Append(s, x)

RECURSIVE SortItems(_)
SortItems(s) == IF s = << >> THEN << >> ELSE InsertItem(SortItems(Front(s)), Last(s))

\* Lines 327-368, as the value preview_contents ends with.
PreviewOf(w, ns, node_index) ==
    IF node_index >= Len(ns) THEN << >>
    ELSE SortItems(ReadDir(w, ns[node_index + 1].path))

update_preview(node_index) ==
    /\ preview_contents' = PreviewOf(walk, nodes, node_index)
    /\ preview_scroll_offset' = 0

(* ------------------------------ animation ----------------------------- *)

\* increment_animation with line 177 adding 2 instead of 1.
increment_animation_by2 ==
    /\ animation_depth' = IF animation_depth <= stats.max_depth
                          THEN animation_depth + 2 ELSE animation_depth
    /\ animation_complete' = IF animation_depth <= stats.max_depth
                             THEN animation_complete ELSE TRUE
    /\ animation_frame' = IF ~animation_complete'
                          THEN (animation_frame + 1) % FrameCount
                          ELSE animation_frame
    /\ ticks' = ticks + 1

\* increment_animation with line 183 reducing modulo 4 instead of 3.
increment_animation_mod4 ==
    /\ animation_depth' = IF animation_depth <= stats.max_depth
                          THEN animation_depth + 1 ELSE animation_depth
    /\ animation_complete' = IF animation_depth <= stats.max_depth
                             THEN animation_complete ELSE TRUE
    /\ animation_frame' = IF ~animation_complete'
                          THEN (animation_frame + 1) % (FrameCount + 1)
                          ELSE animation_frame
    /\ ticks' = ticks + 1

\* increment_animation with line 176 comparing with < instead of <=.
increment_animation_lt ==
    /\ animation_depth' = IF animation_depth < stats.max_depth
                          THEN animation_depth + 1 ELSE animation_depth
    /\ animation_complete' = IF animation_depth < stats.max_depth
                             THEN animation_complete ELSE TRUE
    /\ animation_frame' = IF ~animation_complete'
                          THEN (animation_frame + 1) % FrameCount
                          ELSE animation_frame
    /\ ticks' = ticks + 1

\* Lines 175-185.
increment_animation ==
    /\ animation_depth' = IF animation_depth <= stats.max_depth
                          THEN animation_depth + 1 ELSE animation_depth
    /\ animation_complete' = IF animation_depth <= stats.max_depth
                             THEN animation_complete ELSE TRUE
    /\ animation_frame' = IF ~animation_complete'
                          THEN (animation_frame + 1) % FrameCount
                          ELSE animation_frame
    /\ ticks' = ticks + 1

\* is_node_visible with line 188 comparing with < instead of <=.
is_node_visible_lt(node) == node.depth < animation_depth

\* Lines 187-189.
is_node_visible(node) == node.depth <= animation_depth

\* Lines 262-268.
get_visible_node_indices ==
    LET Shown(idx) == is_node_visible(nodes[idx + 1])
    IN  SelectSeq([i \in 1..Len(nodes) |-> i - 1], Shown)

\* Iterator::position: the first 0-based position of x in s.
Position(s, x) ==
    IF \E k \in 1..Len(s) : s[k] = x
    THEN Some((CHOOSE k \in 1..Len(s) : s[k] = x /\ \A m \in 1..(k - 1) : s[m] # x) - 1)
    ELSE None

(* ------------------------------- clicks ------------------------------- *)

\* is_double_click with line 193 comparing the time with <= instead of <.
is_double_click_le(idx) ==
    IF IsSome(last_click_time) /\ IsSome(last_click_index)
    THEN Unwrap(last_click_index) = idx /\ Unwrap(last_click_time) <= DoubleClickMs
    ELSE FALSE

\* is_double_click with line 193 not comparing the index.
is_double_click_any(idx) ==
    IF IsSome(last_click_time) /\ IsSome(last_click_index)
    THEN Unwrap(last_click_time) < DoubleClickMs
    ELSE FALSE

\* Lines 191-197; now.duration_since(last_time) is the age of last_time.
is_double_click(idx) ==
    IF IsSome(last_click_time) /\ IsSome(last_click_index)
    THEN Unwrap(last_click_index) = idx /\ Unwrap(last_click_time) < DoubleClickMs
    ELSE FALSE

\* Lines 213-220: the first index whose node has the path.
ActualIndex(path) ==
    IF \E i \in 1..Len(nodes) : nodes[i].path = path
    THEN Some((CHOOSE i \in 1..Len(nodes) :
                  nodes[i].path = path /\ \A m \in 1..(i - 1) : nodes[m].path # path) - 1)
    ELSE None

ClickIgnored ==
    /\ opened' = None
    /\ UNCHANGED << selected_index, previewVars, clickVars >>

\* ClickOn without the update_preview of line 237.
ClickOn_noreload(node, idx) ==
    IF is_double_click(idx)
    THEN /\ opened' = IF node.is_dir THEN Some(idx) ELSE None
         /\ last_click_time' = None
         /\ last_click_index' = None
         /\ UNCHANGED << selected_index, previewVars >>
    ELSE /\ selected_index' = Some(idx)
         /\ UNCHANGED previewVars
         /\ last_click_time' = Some(0)
         /\ last_click_index' = Some(idx)
         /\ opened' = None

\* Lines 222-241, for the node clicked and its index.
ClickOn(node, idx) ==
    IF is_double_click(idx)
    THEN /\ opened' = IF node.is_dir THEN Some(idx) ELSE None
         /\ last_click_time' = None
         /\ last_click_index' = None
         /\ UNCHANGED << selected_index, previewVars >>
    ELSE /\ selected_index' = Some(idx)
         /\ update_preview(idx)
         /\ last_click_time' = Some(0)
         /\ last_click_index' = Some(idx)
         /\ opened' = None

\* ClickInside taking the row itself for the line: line 206 without "- 1".
ClickInside_row(row, area) ==
    LET clicked_index == (row - area.top) + scroll_offset
        visible_nodes == get_visible_node_indices
    IN  IF clicked_index < Len(visible_nodes)
        THEN LET node == nodes[visible_nodes[clicked_index + 1] + 1]
                 actual_index == ActualIndex(node.path)
             IN  IF IsSome(actual_index)
                 THEN ClickOn(node, Unwrap(actual_index))
                 ELSE ClickIgnored
        ELSE ClickIgnored

\* Lines 206-242: the row is inside the borders.
ClickInside(row, area) ==
    LET clicked_index == (row - area.top - 1) + scroll_offset
        visible_nodes == get_visible_node_indices
    IN  IF clicked_index < Len(visible_nodes)
        THEN LET node == nodes[visible_nodes[clicked_index + 1] + 1]
                 actual_index == ActualIndex(node.path)
             IN  IF IsSome(actual_index)
                 THEN ClickOn(node, Unwrap(actual_index))
                 ELSE ClickIgnored
        ELSE ClickIgnored

\* Lines 204-243; area is the Rect, as its top() and bottom(). With
\* area.bottom() = 0 the u16 subtraction area.bottom() - 1 of line 205, which
\* is evaluated when row > area.top(), overflows: a build with overflow
\* checks panics there, one without wraps to u16::MAX, above every row.
ClickAt(row, area) ==
    IF row > area.top
    THEN IF area.bottom >= 1
         THEN /\ UNCHANGED panicked
              /\ IF row < area.bottom - 1 THEN ClickInside(row, area)
                 ELSE ClickIgnored
         ELSE \/ panicked' = TRUE /\ ClickIgnored
              \/ UNCHANGED panicked /\ ClickInside(row, area)
    ELSE UNCHANGED panicked /\ ClickIgnored

\* handle_mouse_click without the early return of lines 200-202.
handle_mouse_click_unguarded(row, area) ==
    /\ UNCHANGED << scroll_offset, animVars >>
    /\ ClickAt(row, area)

\* Lines 199-244.
handle_mouse_click(row, area) ==
    /\ UNCHANGED << scroll_offset, animVars >>
    /\ IF ~animation_complete THEN UNCHANGED panicked /\ ClickIgnored
       ELSE ClickAt(row, area)

(* ------------------------------ scrolling ----------------------------- *)

\* scroll_down with line 256 not subtracting the viewport height.
ScrollDownFrom_whole(offset, visible_lines) ==
    LET visible_count == Len(get_visible_node_indices)
    IN  IF offset < visible_count THEN offset + 1 ELSE offset

\* Lines 246-250, as the offset scroll_up leaves.
ScrollUpFrom(offset) == IF offset > 0 THEN offset - 1 ELSE offset

\* Lines 252-260, as the offset scroll_down leaves.
ScrollDownFrom(offset, visible_lines) ==
    LET visible_count == Len(get_visible_node_indices)
        max_scroll == saturating_sub(visible_count, visible_lines)
    IN  IF offset < max_scroll THEN offset + 1 ELSE offset

scroll_up ==
    /\ scroll_offset' = ScrollUpFrom(scroll_offset)
    /\ UNCHANGED << selected_index, previewVars, clickVars, animVars >>

scroll_down(visible_lines) ==
    /\ scroll_offset' = ScrollDownFrom(scroll_offset, visible_lines)
    /\ UNCHANGED << selected_index, previewVars, clickVars, animVars >>

RECURSIVE ScrollUpTimes(_, _)
ScrollUpTimes(n, offset) ==
    IF n = 0 THEN offset ELSE ScrollUpTimes(n - 1, ScrollUpFrom(offset))

RECURSIVE ScrollDownTimes(_, _, _)
ScrollDownTimes(n, offset, visible_lines) ==
    IF n = 0 THEN offset
    ELSE ScrollDownTimes(n - 1, ScrollDownFrom(offset, visible_lines), visible_lines)

\* Lines 455-459.
page_up ==
    /\ scroll_offset' = ScrollUpTimes(PageLines, scroll_offset)
    /\ UNCHANGED << selected_index, previewVars, clickVars, animVars >>

\* Lines 460-464.
page_down(visible_lines) ==
    /\ scroll_offset' = ScrollDownTimes(PageLines, scroll_offset, visible_lines)
    /\ UNCHANGED << selected_index, previewVars, clickVars, animVars >>

(* ------------------------------ selection ----------------------------- *)

\* select_previous moving to the previous node of the Vec, revealed or not.
select_previous_raw ==
    /\ UNCHANGED << scroll_offset, clickVars, animVars >>
    /\ IF IsSome(selected_index) /\ Unwrap(selected_index) > 0
       THEN /\ selected_index' = Some(Unwrap(selected_index) - 1)
            /\ update_preview(Unwrap(selected_index) - 1)
       ELSE UNCHANGED << selected_index, previewVars >>

\* Lines 270-288.
select_previous ==
    /\ UNCHANGED << scroll_offset, clickVars, animVars >>
    /\ LET visible_nodes == get_visible_node_indices
           pos == IF IsSome(selected_index)
                  THEN Position(visible_nodes, Unwrap(selected_index)) ELSE None
       IN  IF visible_nodes # << >> /\ IsSome(pos) /\ Unwrap(pos) > 0
           THEN /\ selected_index' = Some(visible_nodes[Unwrap(pos)])
                /\ update_preview(visible_nodes[Unwrap(pos)])
           ELSE UNCHANGED << selected_index, previewVars >>

\* select_next moving to the next node of the Vec, revealed or not.
select_next_raw ==
    /\ UNCHANGED << scroll_offset, clickVars, animVars >>
    /\ IF IsSome(selected_index) /\ Unwrap(selected_index) + 1 < Len(nodes)
       THEN /\ selected_index' = Some(Unwrap(selected_index) + 1)
            /\ update_preview(Unwrap(selected_index) + 1)
       ELSE UNCHANGED << selected_index, previewVars >>

\* Lines 290-308.
select_next ==
    /\ UNCHANGED << scroll_offset, clickVars, animVars >>
    /\ LET visible_nodes == get_visible_node_indices
           pos == IF IsSome(selected_index)
                  THEN Position(visible_nodes, Unwrap(selected_index)) ELSE None
       IN  IF visible_nodes # << >> /\ IsSome(pos)
              /\ Unwrap(pos) < Len(visible_nodes) - 1
           THEN /\ selected_index' = Some(visible_nodes[Unwrap(pos) + 2])
                /\ update_preview(visible_nodes[Unwrap(pos) + 2])
           ELSE UNCHANGED << selected_index, previewVars >>

\* The position of the selected node among the visible ones (lines 311-314).
SelectedPos ==
    IF IsSome(selected_index)
    THEN Position(get_visible_node_indices, Unwrap(selected_index)) ELSE None

\* ensure_selected_visible with line 321 subtracting visible_lines, not
\* visible_lines - 1.
ensure_selected_visible_low(visible_lines) ==
    /\ UNCHANGED << selected_index, previewVars, clickVars, animVars, panicked >>
    /\ IF IsSome(SelectedPos)
       THEN LET pos == Unwrap(SelectedPos)
            IN  IF pos < scroll_offset
                THEN scroll_offset' = pos
                ELSE IF pos >= scroll_offset + visible_lines
                THEN scroll_offset' = saturating_sub(pos, visible_lines)
                ELSE UNCHANGED scroll_offset
       ELSE UNCHANGED scroll_offset

\* Lines 310-325. With visible_lines = 0 the usize subtraction
\* visible_lines - 1 of line 321 overflows: a build with overflow checks
\* panics there, one without wraps to usize::MAX and saturating_sub gives 0.
ensure_selected_visible(visible_lines) ==
    /\ UNCHANGED << selected_index, previewVars, clickVars, animVars >>
    /\ IF IsSome(SelectedPos)
       THEN LET pos == Unwrap(SelectedPos)
            IN  IF pos < scroll_offset
                THEN scroll_offset' = pos /\ UNCHANGED panicked
                ELSE IF pos >= scroll_offset + visible_lines
                THEN IF visible_lines >= 1
                     THEN /\ scroll_offset' = saturating_sub(pos, visible_lines - 1)
                          /\ UNCHANGED panicked
                     ELSE \/ panicked' = TRUE /\ UNCHANGED scroll_offset
                          \/ scroll_offset' = 0 /\ UNCHANGED panicked
                ELSE UNCHANGED << scroll_offset, panicked >>
       ELSE UNCHANGED << scroll_offset, panicked >>

(* --------------------------- preview scrolling ------------------------ *)

\* Lines 370-374.
scroll_preview_up ==
    /\ preview_scroll_offset' = IF preview_scroll_offset > 0
                                THEN preview_scroll_offset - 1
                                ELSE preview_scroll_offset
    /\ UNCHANGED << preview_contents, scroll_offset, selected_index, clickVars,
                    animVars >>

\* scroll_preview_down without the .min(max_offset) of line 381.
scroll_preview_down_unclamped(lines) ==
    /\ preview_scroll_offset' =
          IF preview_contents = << >> THEN preview_scroll_offset
          ELSE preview_scroll_offset + lines
    /\ UNCHANGED << preview_contents, scroll_offset, selected_index, clickVars,
                    animVars >>

\* Lines 376-382.
scroll_preview_down(lines) ==
    /\ preview_scroll_offset' =
          IF preview_contents = << >> THEN preview_scroll_offset
          ELSE Min(preview_scroll_offset + lines,
                   saturating_sub(Len(preview_contents), 1))
    /\ UNCHANGED << preview_contents, scroll_offset, selected_index, clickVars,
                    animVars >>

(* -------------------------------- time -------------------------------- *)

\* Time passes: the Instant the App keeps grows older by ClockStep.
ClickAges ==
    last_click_time' = IF IsSome(last_click_time)
                       THEN Some(Min(Unwrap(last_click_time) + ClockStep, DoubleClickMs))
                       ELSE None

\* Time passes in run_app: its last_tick grows older too.
TimePasses ==
    /\ ClickAges
    /\ last_tick' = Min(last_tick + ClockStep, animation_speed)

(* --------------------------- initial state ---------------------------- *)

\* Line 444: terminal.size()?.height.saturating_sub(4).
area_height == saturating_sub(term_height, ViewportMargin)

\* Lines 469-475: the left chunk of the horizontal split of the terminal.
tree_area == [top |-> 0, bottom |-> term_height]

\* Lines 151-172 (App::new) and 435-436 (run_app before its loop), for the
\* walk of one of the given filesystems on a terminal of one of the given
\* heights.
InitOn(walks, heights) ==
    /\ walk \in walks
    /\ term_height \in heights
    /\ nodes = BuildNodes(walk)
    /\ stats = BuildStats(walk)
    /\ animation_depth = 0
    /\ animation_complete = FALSE
    /\ animation_frame = 0
    /\ scroll_offset = 0
    /\ selected_index = IF nodes # << >> THEN Some(0) ELSE None
    /\ preview_contents = IF nodes # << >> THEN PreviewOf(walk, nodes, 0) ELSE << >>
    /\ preview_scroll_offset = 0
    /\ last_click_time = None
    /\ last_click_index = None
    /\ last_tick = 0
    /\ pc = "draw"
    /\ pending = 0
    /\ reads = 0
    /\ last_event = None
    /\ clicked = None
    /\ panicked = FALSE
    /\ ticks = 0
    /\ last_op = "new"
    /\ opened = None
    /\ prior_click = None

\* The same on the terminals that leave the tree a viewport of 0 lines or
\* more.
InitFor(walks) == InitOn(walks, ViewportMargin..MaxTermHeight)

Init == InitFor(OrderedWalks \cup {FailedWalk})

(* --------------- the App's operations, in any interleaving ------------ *)

\* A step that is no call of handle_mouse_click.
NoClick == opened' = None /\ prior_click' = None


\* The rows a mouse event can carry: those of the terminal, and one below.
Rows == 0..MaxTermHeight

\* Lines 482-484: run_app calls increment_animation only while the
\* animation is not complete.
Tick ==
    /\ ~panicked
    /\ ~animation_complete
    /\ increment_animation
    /\ last_op' = "increment_animation"
    /\ NoClick
    /\ UNCHANGED << envVars, scroll_offset, selected_index, previewVars,
                    clickVars, loopVars, panicked >>

Advance ==
    /\ ~panicked
    /\ ClickAges
    /\ last_op' = "time"
    /\ NoClick
    /\ UNCHANGED << envVars, animVars, scroll_offset, selected_index, previewVars,
                    last_click_index, loopVars, panicked >>

ScrollUp ==
    /\ ~panicked
    /\ scroll_up
    /\ last_op' = "scroll_up"
    /\ NoClick
    /\ UNCHANGED << envVars, loopVars, panicked >>

ScrollDown ==
    /\ ~panicked
    /\ scroll_down(area_height)
    /\ last_op' = "scroll_down"
    /\ NoClick
    /\ UNCHANGED << envVars, loopVars, panicked >>

PageUp ==
    /\ ~panicked
    /\ page_up
    /\ last_op' = "scroll_up"
    /\ NoClick
    /\ UNCHANGED << envVars, loopVars, panicked >>

PageDown ==
    /\ ~panicked
    /\ page_down(area_height)
    /\ last_op' = "scroll_down"
    /\ NoClick
    /\ UNCHANGED << envVars, loopVars, panicked >>

SelectPrevious ==
    /\ ~panicked
    /\ select_previous
    /\ last_op' = "select_previous"
    /\ NoClick
    /\ UNCHANGED << envVars, loopVars, panicked >>

SelectNext ==
    /\ ~panicked
    /\ select_next
    /\ last_op' = "select_next"
    /\ NoClick
    /\ UNCHANGED << envVars, loopVars, panicked >>

EnsureSelectedVisible ==
    /\ ~panicked
    /\ ensure_selected_visible(area_height)
    /\ last_op' = "ensure_selected_visible"
    /\ NoClick
    /\ UNCHANGED << envVars, loopVars >>

Click ==
    \E row \in Rows :
        /\ ~panicked
        /\ handle_mouse_click(row, tree_area)
        /\ prior_click' = last_click_index
        /\ last_op' = "handle_mouse_click"
        /\ UNCHANGED << envVars, loopVars >>

ScrollPreviewUp ==
    /\ ~panicked
    /\ scroll_preview_up
    /\ last_op' = "scroll_preview_up"
    /\ NoClick
    /\ UNCHANGED << envVars, loopVars, panicked >>

ScrollPreviewDown ==
    \E lines \in 0..MaxLines :
        /\ ~panicked
        /\ scroll_preview_down(lines)
        /\ last_op' = "scroll_preview_down"
        /\ NoClick
        /\ UNCHANGED << envVars, loopVars, panicked >>

Next ==
    \/ Tick
    \/ Advance
    \/ ScrollUp
    \/ ScrollDown
    \/ PageUp
    \/ PageDown
    \/ SelectPrevious
    \/ SelectNext
    \/ EnsureSelectedVisible
    \/ Click
    \/ ScrollPreviewUp
    \/ ScrollPreviewDown

Spec == Init /\ [][Next]_vars

(* ------------------ the selection, moved as nodes appear -------------- *)

SelectionInit == InitFor(SelectWalks)

SelectionNext ==
    \/ Tick
    \/ SelectPrevious
    \/ SelectNext
    \/ ScrollPreviewDown

SelectionSpec == SelectionInit /\ [][SelectionNext]_vars

(* ------------------ clicks, on a terminal of any height --------------- *)

\* The Rect that reaches from row top to the bottom of the terminal;
\* run_app's chunks[0] (lines 469-475) is the one with top 0.
AreaFrom(top) == [top |-> top, bottom |-> term_height]

\* The top rows of the Rects handle_mouse_click is called with: the first
\* row of the terminal and the one below it.
Tops == {t \in {0, 1} : t <= term_height}

ClickInit == InitOn(OrderedWalks \cup {FailedWalk}, 0..MaxTermHeight)

\* handle_mouse_click, for any row and either Rect.
ClickIn ==
    \E row \in Rows : \E top \in Tops :
        /\ ~panicked
        /\ handle_mouse_click(row, AreaFrom(top))
        /\ prior_click' = last_click_index
        /\ last_op' = "handle_mouse_click"
        /\ UNCHANGED << envVars, loopVars >>

ClickNext ==
    \/ Tick
    \/ ScrollUp
    \/ ScrollDown
    \/ ClickIn

ClickSpec == ClickInit /\ [][ClickNext]_vars

(* ------------------------------- run_app ------------------------------ *)

KeyCodes == {"q", "Esc", "Up", "Down", "Left", "Right", "PageUp", "PageDown", "Other"}

\* What event::read() can return: a key, a mouse event (the left button
\* going down on a row, or any other kind), or another event (resize, focus).
Events ==
    [type : {"Key"}, code : KeyCodes, row : {0}]
    \cup [type : {"Mouse"}, code : {"DownLeft"}, row : Rows]
    \cup {[type |-> "Mouse", code |-> "Other", row |-> 0],
          [type |-> "Other", code |-> "Other", row |-> 0]}

IsLeftDown(e) == e.type = "Mouse" /\ e.code = "DownLeft"

appVars == << scroll_offset, selected_index, previewVars, clickVars, animVars >>

\* Lines 445-466: the match on key.code, but for the quit keys.
HandleKey(code) ==
    CASE code = "Up"       -> scroll_up
      [] code = "Down"     -> scroll_down(area_height)
      [] code = "Left"     -> scroll_preview_up
      [] code = "Right"    -> scroll_preview_down(1)
      [] code = "PageUp"   -> page_up
      [] code = "PageDown" -> page_down(area_height)
      [] OTHER             -> UNCHANGED appVars

KeyOp(code) ==
    CASE code = "Up"       -> "scroll_up"
      [] code = "Down"     -> "scroll_down"
      [] code = "Left"     -> "scroll_preview_up"
      [] code = "Right"    -> "scroll_preview_down"
      [] code = "PageUp"   -> "scroll_up"
      [] code = "PageDown" -> "scroll_down"
      [] OTHER             -> "run_app"

\* The terminal receives an input event.
Arrive ==
    /\ pc \notin {"quit"}
    /\ pending < MaxPending
    /\ pending' = pending + 1
    /\ UNCHANGED << envVars, appVars, last_tick, pc, logVars, panicked, histVars >>

\* Time passes while run_app computes or draws.
Elapse ==
    /\ pc \notin {"quit"}
    /\ TimePasses
    /\ UNCHANGED << envVars, animVars, scroll_offset, selected_index, previewVars,
                    last_click_index, pc, pending, logVars, panicked, histVars >>

\* Line 439: terminal.draw.
LoopDraw ==
    /\ pc = "draw"
    /\ pc' = "poll"
    /\ last_op' = "run_app"
    /\ NoClick
    /\ UNCHANGED << envVars, appVars, last_tick, pending, logVars, panicked >>

\* Line 441.
poll_timeout == saturating_sub(animation_speed, last_tick)

\* Line 442: event::poll(timeout) finds an event.
PollReady ==
    /\ pc = "poll"
    /\ pending > 0
    /\ pc' = "read"
    /\ UNCHANGED << envVars, appVars, last_tick, pending, logVars, panicked,
                    histVars >>

\* Line 442: event::poll(timeout) finds none before the timeout has passed.
PollTimeout ==
    /\ pc = "poll"
    /\ pending = 0
    /\ IF poll_timeout > 0 THEN TimePasses
       ELSE UNCHANGED << last_click_time, last_tick >>
    /\ pc' = "tick"
    /\ UNCHANGED << envVars, animVars, scroll_offset, selected_index, previewVars,
                    last_click_index, pending, logVars, panicked, histVars >>

\* Lines 443-466: the first event::read(), and the key it returned handled.
ReadKey ==
    /\ pc = "read"
    /\ pending > 0
    /\ \E e \in Events :
        /\ e.type = "Key"
        /\ pending' = pending - 1
        /\ reads' = reads + 1
        /\ last_event' = Some(e)
        /\ IF e.code \in {"q", "Esc"}
           THEN pc' = "quit" /\ UNCHANGED appVars /\ last_op' = "run_app"
           ELSE pc' = "tick" /\ HandleKey(e.code) /\ last_op' = KeyOp(e.code)
        /\ NoClick
        /\ UNCHANGED << envVars, last_tick, clicked, panicked >>

\* Lines 443 and 467: the first event::read() returned no key, so the
\* pattern of line 443 fails and the else branch calls event::read() again.
ReadNotKey ==
    /\ pc = "read"
    /\ pending > 0
    /\ \E e \in Events :
        /\ e.type # "Key"
        /\ pending' = pending - 1
        /\ reads' = reads + 1
        /\ last_event' = Some(e)
    /\ pc' = "read_again"
    /\ UNCHANGED << envVars, appVars, last_tick, clicked, panicked, histVars >>

\* Lines 467-478: the second event::read(), which waits for an event, and
\* the left button going down handled.
ReadAgain ==
    /\ pc = "read_again"
    /\ pending > 0
    /\ \E e \in Events :
        /\ pending' = pending - 1
        /\ reads' = reads + 1
        /\ last_event' = Some(e)
        /\ IF IsLeftDown(e)
           THEN /\ handle_mouse_click(e.row, tree_area)
                /\ clicked' = Some(e.row)
                /\ prior_click' = last_click_index
                /\ last_op' = "handle_mouse_click"
           ELSE /\ UNCHANGED << appVars, clicked, panicked >>
                /\ NoClick
                /\ last_op' = "run_app"
    /\ pc' = "tick"
    /\ UNCHANGED << envVars, last_tick >>

\* Lines 481-486, which end the iteration.
LoopTick ==
    /\ pc = "tick"
    /\ IF last_tick >= animation_speed
       THEN /\ IF ~animation_complete
               THEN increment_animation /\ last_op' = "increment_animation"
               ELSE UNCHANGED animVars /\ last_op' = "run_app"
            /\ last_tick' = 0
       ELSE UNCHANGED << animVars, last_tick >> /\ last_op' = "run_app"
    /\ pc' = "draw"
    /\ reads' = 0
    /\ last_event' = None
    /\ clicked' = None
    /\ NoClick
    /\ UNCHANGED << envVars, scroll_offset, selected_index, previewVars, clickVars,
                    pending, panicked >>

LoopNext ==
    \/ Arrive
    \/ Elapse
    \/ LoopDraw
    \/ PollReady
    \/ PollTimeout
    \/ ReadKey
    \/ ReadNotKey
    \/ ReadAgain
    \/ LoopTick

LoopSpec == Init /\ [][LoopNext]_vars

\* A step of run_app itself: the thread runs whenever it is not waiting in
\* poll or read for an event that has not arrived.
LoopStep ==
    \/ LoopDraw
    \/ PollReady
    \/ PollTimeout
    \/ ReadKey
    \/ ReadNotKey
    \/ ReadAgain
    \/ LoopTick

\* run_app under a scheduler that keeps running the thread, and a clock
\* that keeps advancing. Nothing is assumed of the arrival of events.
FairLoopSpec ==
    /\ Init
    /\ [][LoopNext]_vars
    /\ WF_vars(LoopStep)
    /\ WF_vars(Elapse)

(* --------------------------- App::new alone --------------------------- *)

\* Lines 75-81 and 151-164: App::new is entered, with nothing walked yet.
BuildInit ==
    /\ walk \in BuildWalks
    /\ term_height \in ViewportMargin..MaxTermHeight
    /\ nodes = << >>
    /\ stats = [total_files |-> 0, total_dirs |-> 0, max_depth |-> 0]
    /\ animation_depth = 0
    /\ animation_complete = FALSE
    /\ animation_frame = 0
    /\ scroll_offset = 0
    /\ selected_index = None
    /\ preview_contents = << >>
    /\ preview_scroll_offset = 0
    /\ last_click_time = None
    /\ last_click_index = None
    /\ last_tick = 0
    /\ pc = "new"
    /\ pending = 0
    /\ reads = 0
    /\ last_event = None
    /\ clicked = None
    /\ panicked = FALSE
    /\ ticks = 0
    /\ last_op = "main"
    /\ opened = None
    /\ prior_click = None

\* Lines 74-173: App::new walks the tree, computes the flags, selects the
\* first node and loads its preview.
AppNew ==
    /\ pc = "new"
    /\ nodes' = BuildNodes(walk)
    /\ stats' = BuildStats(walk)
    /\ selected_index' = IF nodes' # << >> THEN Some(0) ELSE None
    /\ preview_contents' = IF nodes' # << >> THEN PreviewOf(walk, nodes', 0)
                           ELSE << >>
    /\ preview_scroll_offset' = 0
    /\ pc' = "draw"
    /\ last_op' = "new"
    /\ UNCHANGED << walk, term_height, animVars, scroll_offset, clickVars,
                    last_tick, pending, logVars, panicked, opened, prior_click >>

BuildNext == AppNew

BuildSpec == BuildInit /\ [][BuildNext]_vars

\* App::new has returned.
Built == pc # "new"

(* ============================== claims ================================ *)

VisibleCount == Len(get_visible_node_indices)

\* C1, as stated: after exactly max_depth + 1 calls of increment_animation,
\* animation_complete is true.
C1_AsStated == ticks = stats.max_depth + 1 => animation_complete

\* C1, amended: animation_complete is false until increment_animation has
\* been called max_depth + 2 times, true from that call on, and once true it
\* stays true under every later operation.
C1_CompleteAfterTicks ==
    /\ [](animation_complete <=> ticks >= stats.max_depth + 2)
    /\ [][animation_complete => animation_complete']_vars

\* The animation completed by tick max_depth + 2, and a click handled after.
C1_Witness ==
    /\ animation_complete
    /\ ticks = stats.max_depth + 2
    /\ last_op = "handle_mouse_click"

\* C2: a node of depth d is invisible after fewer than d ticks and visible
\* after d ticks or more; a visible node stays visible under every step; and
\* is_node_visible holds iff the node's depth is at most animation_depth.
C2_VisibleFromTickD ==
    /\ [](\A i \in 1..Len(nodes) :
            /\ is_node_visible(nodes[i]) <=> nodes[i].depth <= ticks
            /\ is_node_visible(nodes[i]) <=> nodes[i].depth <= animation_depth)
    /\ [][\A i \in 1..Len(nodes) :
            is_node_visible(nodes[i]) => is_node_visible(nodes[i])']_vars

\* A node of depth 2 that the second tick has just made visible.
C2_Witness ==
    \E i \in 1..Len(nodes) :
        /\ nodes[i].depth = 2
        /\ ticks = 2
        /\ is_node_visible(nodes[i])
        /\ last_op = "increment_animation"

\* C3: in every reachable state selected_index, when present, is a valid
\* index of a node whose depth is at most animation_depth.
C3_SelectionRevealed ==
    IsSome(selected_index) =>
        /\ Unwrap(selected_index) \in 0..(Len(nodes) - 1)
        /\ nodes[Unwrap(selected_index) + 1].depth <= animation_depth

\* select_next moved the selection off the root while deeper nodes are
\* still hidden.
C3_Witness ==
    /\ IsSome(selected_index)
    /\ Unwrap(selected_index) >= 1
    /\ last_op = "select_next"
    /\ \E i \in 1..Len(nodes) : nodes[i].depth > animation_depth

\* C4: in every reachable state scroll_offset lies in [0, max(0, N - H)], N
\* the number of visible nodes and H the viewport height.
C4_ScrollClamp ==
    /\ scroll_offset >= 0
    /\ scroll_offset <= (IF VisibleCount > area_height
                         THEN VisibleCount - area_height ELSE 0)

\* scroll_down reached the largest offset, N - H, of a viewport smaller
\* than the visible set.
C4_Witness ==
    /\ area_height >= 1
    /\ scroll_offset >= 1
    /\ scroll_offset = VisibleCount - area_height
    /\ last_op = "scroll_down"

\* The postcondition of ensure_selected_visible(area_height) for the selected
\* node's position p: p lies in the viewport, and the offset is p when p was
\* above it, p - (H - 1) when p was at or past its end, and unchanged otherwise.
EnsurePost ==
    LET p == Unwrap(SelectedPos)
        H == area_height
    IN  /\ scroll_offset' <= p
        /\ p < scroll_offset' + H
        /\ scroll_offset' = IF p < scroll_offset THEN p
                            ELSE IF p >= scroll_offset + H THEN p - (H - 1)
                            ELSE scroll_offset

EnsureReturned ==
    last_op' = "ensure_selected_visible" /\ ~panicked' /\ IsSome(SelectedPos)

\* C5, as stated: after ensure_selected_visible(H), for any prior offset and
\* any selected visible node, the postcondition holds (for every H).
C5_AsStated == [][EnsureReturned => EnsurePost]_vars

\* C5, amended: after ensure_selected_visible(H) with H >= 1, for any prior
\* offset and any selected visible node, the node's position p satisfies
\* scroll_offset <= p < scroll_offset + H, and the offset is p when p was
\* above the viewport, p - (H - 1) when p was at or past its end, and
\* unchanged otherwise.
C5_EnsureVisible == [][(EnsureReturned /\ area_height >= 1) => EnsurePost]_vars

\* ensure_selected_visible returned with the selected node on the last line
\* of a viewport that is scrolled down.
C5_Witness ==
    /\ last_op = "ensure_selected_visible"
    /\ area_height >= 1
    /\ IsSome(SelectedPos)
    /\ scroll_offset >= 1
    /\ Unwrap(SelectedPos) = scroll_offset + area_height - 1

\* A step that is a call of handle_mouse_click with the animation complete.
IsClickStep == last_op' = "handle_mouse_click" /\ animation_complete

\* The click on row is a valid click: the animation is complete and the row
\* maps to a visible node.
ValidClick(row) ==
    /\ animation_complete
    /\ row > tree_area.top
    /\ row < tree_area.bottom - 1
    /\ (row - tree_area.top - 1) + scroll_offset < VisibleCount

\* The index of the node a valid click on row is on.
ClickTarget(row) ==
    get_visible_node_indices[(row - tree_area.top - 1) + scroll_offset + 1]

\* A click on index i is recorded and less than 500ms old.
RecordedWithin(i) ==
    /\ last_click_index = Some(i)
    /\ IsSome(last_click_time)
    /\ Unwrap(last_click_time) < DoubleClickMs

\* C6: a valid click on i with no click on i recorded within the last 500ms
\* selects i and records (i, now); with one, it opens i and clears the
\* record; and the click after an open is a select again.
C6_DoubleClick ==
    [][IsClickStep => \A row \in Rows :
        (ValidClick(row) /\ handle_mouse_click(row, tree_area)) =>
            LET i == ClickTarget(row)
            IN  /\ ~RecordedWithin(i) =>
                    /\ selected_index' = Some(i)
                    /\ last_click_index' = Some(i)
                    /\ last_click_time' = Some(0)
                    /\ opened' = None
                /\ RecordedWithin(i) =>
                    /\ opened' = Some(i)
                    /\ last_click_index' = None
                    /\ last_click_time' = None
                /\ IsSome(opened) =>
                    /\ opened' = None
                    /\ selected_index' = Some(i)]_vars

\* A second click opened a node and cleared the record.
C6_Witness ==
    /\ last_op = "handle_mouse_click"
    /\ IsSome(opened)
    /\ last_click_index = None
    /\ last_click_time = None

\* C7: a valid click on j while the recorded click is on another index i,
\* however old, opens nothing: it selects j and records (j, now).
C7_OtherIndex ==
    [][IsClickStep => \A row \in Rows :
        (/\ ValidClick(row)
         /\ IsSome(last_click_index)
         /\ Unwrap(last_click_index) # ClickTarget(row)
         /\ handle_mouse_click(row, tree_area)) =>
            /\ opened' = None
            /\ selected_index' = Some(ClickTarget(row))
            /\ last_click_index' = Some(ClickTarget(row))
            /\ last_click_time' = Some(0)]_vars

\* A click selected a node while a click on another one was recorded.
C7_Witness ==
    /\ last_op = "handle_mouse_click"
    /\ IsSome(prior_click)
    /\ IsSome(last_click_index)
    /\ prior_click # last_click_index
    /\ last_click_time = Some(0)
    /\ selected_index = last_click_index

\* C8: handle_mouse_click called while the animation is not complete leaves
\* selected_index, scroll_offset, the click record and the preview unchanged
\* and opens nothing, whatever the row.
C8_RejectedWhileGrowing ==
    [][(last_op' = "handle_mouse_click" /\ ~animation_complete) =>
        /\ UNCHANGED << selected_index, scroll_offset, last_click_time,
                        last_click_index, preview_contents, preview_scroll_offset >>
        /\ opened' = None]_vars

\* handle_mouse_click was called during the animation.
C8_Witness ==
    /\ last_op = "handle_mouse_click"
    /\ ~animation_complete
    /\ animation_depth >= 1

\* C9, as stated: every left-button-down event run_app has read in the
\* iteration was passed to handle_mouse_click with its row.
C9_AsStated ==
    (IsSome(last_event) /\ IsLeftDown(Unwrap(last_event))) =>
        clicked = Some(Unwrap(last_event).row)

\* C10, as stated: an iteration of run_app reads at most one event, and reads
\* only in answer to a poll that found one.
C10_AsStated ==
    /\ [](reads <= 1)
    /\ [][reads' = reads + 1 => pc = "read"]_vars

\* C11, as stated: in every run of the event loop in which no quit key is
\* read, whatever events arrive, the animation eventually is complete.
C11_AsStated == <>(pc = "quit") \/ <>animation_complete

\* The greatest depth among the directory nodes.
MaxNodeDepth == SeqMax([i \in 1..Len(nodes) |-> nodes[i].depth])

\* C12, as stated: after App::new, stats.max_depth equals the greatest depth
\* among the directory nodes, for every tree of files and directories.
C12_AsStated == stats.max_depth = MaxNodeDepth

\* C12, amended: after App::new, stats.max_depth is the greatest depth among
\* all the entries of the walk, files included: no entry is deeper and one
\* is that deep (it is 0 when the walk yields no entry). It is the greatest depth among the directory nodes, or one
\* more when a file lies deeper than every directory.
C12_MaxEntryDepth ==
    /\ \A i \in 1..Len(walk) : Depth(walk[i].path) <= stats.max_depth
    /\ walk # FailedWalk => \E i \in 1..Len(walk) : Depth(walk[i].path) = stats.max_depth
    /\ walk = FailedWalk => stats.max_depth = 0
    /\ stats.max_depth \in {MaxNodeDepth, MaxNodeDepth + 1}
    /\ stats.max_depth = MaxNodeDepth + 1 <=>
            \E i \in 1..Len(walk) :
                ~walk[i].is_dir /\ Depth(walk[i].path) > MaxNodeDepth

\* A tree of two directories and a file, the file below the deeper
\* directory, after App::new and the animation run against that bound.
C12_Witness ==
    /\ Len(nodes) = 2
    /\ \E i \in 1..Len(walk) : ~walk[i].is_dir /\ Depth(walk[i].path) = 2
    /\ MaxNodeDepth = 1
    /\ stats.max_depth = 2
    /\ animation_complete

\* C13, as stated: in every state run_app reaches (by ticks, the Up, Down,
\* PageUp and PageDown keys, and clicks) with viewport height H >= 1, the
\* position of the selected node among the visible ones lies in
\* [scroll_offset, scroll_offset + H).
C13_AsStated ==
    (area_height >= 1 /\ IsSome(SelectedPos)) =>
        /\ scroll_offset <= Unwrap(SelectedPos)
        /\ Unwrap(SelectedPos) < scroll_offset + area_height

\* Node j comes later than node i, at the same depth and below the same
\* parent.
LaterSibling(i, j) ==
    /\ j > i
    /\ nodes[j].depth = nodes[i].depth
    /\ Parent(nodes[j].path) = Parent(nodes[i].path)

\* C14: for the nodes of every pre-order walk, the flag the forward scan of
\* App::new computes (stop at the first later node of lesser depth; not last
\* iff a node of the same depth and parent is met before) is true for node i
\* iff no later node anywhere in the sequence has i's depth and parent.
C14_LastChildFlag ==
    Built => \A i \in 1..Len(nodes) :
                nodes[i].is_last_child <=>
                    ~\E j \in 1..Len(nodes) : LaterSibling(i, j)

\* Built nodes where the scan of a last child stops at a shallower node
\* before the end, a node of its depth follows further on, and another
\* node is no last child.
C14_Witness ==
    /\ Built
    /\ \E i, k, j \in 1..Len(nodes) :
            /\ i < k /\ k < j
            /\ nodes[k].depth < nodes[i].depth
            /\ nodes[j].depth = nodes[i].depth
            /\ nodes[i].is_last_child
    /\ \E i \in 1..Len(nodes) : ~nodes[i].is_last_child

\* Path p is a proper ancestor of path q.
IsAncestor(p, q) == Len(p) < Len(q) /\ SubSeq(q, 1, Len(p)) = p

\* C15: after App::new the nodes are in pre-order: every ancestor of a
\* node is a node before it, and the descendants of node i are exactly the
\* nodes that follow i up to the next node of depth at most i's.
C15_PreOrder ==
    Built =>
        /\ \A i \in 1..Len(nodes) : \A n \in 1..(Len(nodes[i].path) - 1) :
                \E k \in 1..(i - 1) : nodes[k].path = SubSeq(nodes[i].path, 1, n)
        /\ \A i, j \in 1..Len(nodes) :
                IsAncestor(nodes[i].path, nodes[j].path) <=>
                    /\ i < j
                    /\ \A k \in (i + 1)..j : nodes[k].depth > nodes[i].depth

\* Built nodes of a walk with files among the directories, where a node
\* other than the root has two descendants and a node follows them.
C15_Witness ==
    /\ Built
    /\ \E e \in 2..(Len(walk) - 1) : ~walk[e].is_dir /\ walk[e + 1].is_dir
    /\ \E i \in 2..(Len(nodes) - 3) :
            /\ IsAncestor(nodes[i].path, nodes[i + 1].path)
            /\ IsAncestor(nodes[i].path, nodes[i + 2].path)
            /\ nodes[i + 3].depth <= nodes[i].depth

\* The walk is of the tree root/{A/{x/}, B/} with two files somewhere in it:
\* its directories are, in order, the root, A, A's child x, and B.
ExampleTree ==
    LET dirs == SelectSeq(walk, IsDirEntry)
    IN  /\ Len(walk) = 6
        /\ Len(dirs) = 4
        /\ [i \in 1..4 |-> Depth(dirs[i].path)] = << 0, 1, 2, 1 >>

\* A file of the walk lies in the directory x.
FileInX == \E i \in 1..Len(walk) : ~walk[i].is_dir /\ Depth(walk[i].path) = 3

\* What App::new yields for the example but for max_depth: the nodes root,
\* A, x, B in this order, their flags, and total_dirs.
ExampleNodes ==
    LET dirs == SelectSeq(walk, IsDirEntry)
    IN  /\ Len(nodes) = 4
        /\ \A i \in 1..4 : nodes[i].path = dirs[i].path
        /\ [i \in 1..4 |-> nodes[i].depth] = << 0, 1, 2, 1 >>
        /\ [i \in 1..4 |-> nodes[i].is_last_child] = << TRUE, FALSE, TRUE, TRUE >>
        /\ stats.total_dirs = 4

\* C16, as stated: for the tree root/{A/{x/}, B/} with 2 files, App::new
\* yields the nodes [root(d0), A(d1), x(d2), B(d1)] with is_last_child =
\* [true, false, true, true], total_dirs = 4 and max_depth = 2.
C16_AsStated ==
    (Built /\ ExampleTree) => (ExampleNodes /\ stats.max_depth = 2)

\* C16, amended: for that tree App::new yields those nodes, flags and
\* total_dirs, total_files = 2, and max_depth = 2 when neither file lies
\* in x, 3 when one does.
C16_Example ==
    (Built /\ ExampleTree) =>
        /\ ExampleNodes
        /\ stats.total_files = 2
        /\ stats.max_depth = IF FileInX THEN 3 ELSE 2

\* The example tree built, one file in the root and one in A.
C16_Witness ==
    /\ Built
    /\ ExampleTree
    /\ ~FileInX
    /\ \E i, j \in 1..Len(walk) :
            /\ ~walk[i].is_dir /\ Depth(walk[i].path) = 1
            /\ ~walk[j].is_dir /\ Depth(walk[j].path) = 2
    /\ stats.max_depth = 2

\* The children of the selected directory, as fs::read_dir lists them.
SelectedChildren == ReadDir(walk, nodes[Unwrap(selected_index) + 1].path)

\* Sequence s is a permutation of sequence t.
IsPermutation(s, t) ==
    /\ Len(s) = Len(t)
    /\ \E f \in [1..Len(s) -> 1..Len(t)] :
            /\ \A i, j \in 1..Len(s) : i # j => f[i] # f[j]
            /\ \A i \in 1..Len(s) : s[i] = t[f[i]]

\* The names a, b.txt and c of the example, as the model's names.
ExampleChildren ==
    { [name |-> 1, is_dir |-> TRUE], [name |-> 2, is_dir |-> FALSE],
      [name |-> 3, is_dir |-> TRUE] }

\* C17: whatever the children of the selected directory and the order they
\* are listed in, the preview update_preview loads is a permutation of them
\* in which every directory precedes every file and, among the directories
\* and among the files, the names ascend; {b.txt(file), a(dir), c(dir)}
\* gives [a, c, b.txt].
C17_PreviewSorted ==
    (Built /\ IsSome(selected_index)) =>
        /\ IsPermutation(preview_contents, SelectedChildren)
        /\ \A i, j \in 1..Len(preview_contents) :
                i < j =>
                    /\ preview_contents[i].is_dir \/ ~preview_contents[j].is_dir
                    /\ preview_contents[i].is_dir = preview_contents[j].is_dir =>
                            preview_contents[i].name < preview_contents[j].name
        /\ {SelectedChildren[i] : i \in 1..Len(SelectedChildren)} = ExampleChildren =>
                preview_contents = << [name |-> 1, is_dir |-> TRUE],
                                      [name |-> 3, is_dir |-> TRUE],
                                      [name |-> 2, is_dir |-> FALSE] >>

\* The example's directory, listed as b.txt, c, a, loaded as [a, c, b.txt].
C17_Witness ==
    /\ Built
    /\ IsSome(selected_index)
    /\ SelectedChildren = << [name |-> 2, is_dir |-> FALSE],
                             [name |-> 3, is_dir |-> TRUE],
                             [name |-> 1, is_dir |-> TRUE] >>
    /\ preview_contents = << [name |-> 1, is_dir |-> TRUE],
                             [name |-> 3, is_dir |-> TRUE],
                             [name |-> 2, is_dir |-> FALSE] >>

\* C18: in every reachable state, after any scroll_preview_up,
\* scroll_preview_down(lines) and reloads of the preview with a shorter or
\* empty list, preview_scroll_offset lies in [0, max(0, len - 1)], len the
\* length of preview_contents.
C18_PreviewScrollClamp ==
    /\ preview_scroll_offset >= 0
    /\ preview_scroll_offset <= (IF Len(preview_contents) >= 1
                                 THEN Len(preview_contents) - 1 ELSE 0)

\* scroll_preview_down stopped at the last entry of a preview of two or more.
C18_Witness ==
    /\ last_op = "scroll_preview_down"
    /\ Len(preview_contents) >= 2
    /\ preview_scroll_offset = Len(preview_contents) - 1

\* The revealed nodes (0-based indices) after and before index c.
RevealedAfter(c) ==
    {i \in (c + 1)..(Len(nodes) - 1) : nodes[i + 1].depth <= animation_depth}

RevealedBefore(c) ==
    {i \in 0..(c - 1) : nodes[i + 1].depth <= animation_depth}

Least(S) == CHOOSE x \in S : \A y \in S : x <= y

Greatest(S) == CHOOSE x \in S : \A y \in S : x >= y

\* The selection moves to index i and the preview is reloaded for it.
MovesTo(i) ==
    /\ selected_index' = Some(i)
    /\ preview_contents' = PreviewOf(walk, nodes, i)
    /\ preview_scroll_offset' = 0

\* C19: select_next moves the selection to the nearest revealed node after
\* it, select_previous to the nearest before it, skipping the nodes not yet
\* revealed; each leaves selection and preview alone when there is no such
\* node or no node is visible; and whenever selected_index changes, the
\* preview is reloaded for the new index.
C19_SelectAdjacent ==
    [][/\ last_op' = "select_next" =>
            IF IsSome(selected_index) /\ RevealedAfter(Unwrap(selected_index)) # {}
            THEN MovesTo(Least(RevealedAfter(Unwrap(selected_index))))
            ELSE UNCHANGED << selected_index, previewVars >>
       /\ last_op' = "select_previous" =>
            IF IsSome(selected_index) /\ RevealedBefore(Unwrap(selected_index)) # {}
            THEN MovesTo(Greatest(RevealedBefore(Unwrap(selected_index))))
            ELSE UNCHANGED << selected_index, previewVars >>
       /\ (last_op' \in {"select_next", "select_previous"}
              /\ get_visible_node_indices = << >>) =>
            UNCHANGED << selected_index, previewVars >>
       /\ selected_index' # selected_index =>
            /\ preview_contents' = PreviewOf(walk, nodes, Unwrap(selected_index'))
            /\ preview_scroll_offset' = 0]_vars

\* select_previous moved the selection back over a node not yet revealed,
\* to a node whose preview has entries.
C19_Witness ==
    /\ last_op = "select_previous"
    /\ IsSome(selected_index)
    /\ Unwrap(selected_index) >= 1
    /\ Unwrap(selected_index) + 2 < Len(nodes)
    /\ nodes[Unwrap(selected_index) + 2].depth > animation_depth
    /\ nodes[Unwrap(selected_index) + 3].depth <= animation_depth
    /\ preview_contents # << >>

\* C20: animation_depth never decreases; a tick with animation_depth <=
\* max_depth increases it by exactly 1 and advances animation_frame by 1
\* modulo 3; once animation_complete is set, depth, frame and the flag never
\* change; and no operation but the tick (scroll, select, click, preview
\* scroll, the passing of time) changes any of the three.
C20_AnimationFrame ==
    [][/\ animation_depth' >= animation_depth
       /\ (last_op' = "increment_animation"
              /\ animation_depth <= stats.max_depth) =>
            /\ animation_depth' = animation_depth + 1
            /\ animation_frame' = (animation_frame + 1) % 3
       /\ animation_complete =>
            UNCHANGED << animation_depth, animation_frame, animation_complete >>
       /\ last_op' # "increment_animation" =>
            UNCHANGED << animation_depth, animation_frame, animation_complete >>]_vars

\* The third tick took animation_frame from 2 back to 0.
C20_Witness ==
    /\ last_op = "increment_animation"
    /\ ticks = 3
    /\ animation_depth = 3
    /\ animation_frame = 0
    /\ ~animation_complete

\* C21, as stated: while the animation is not complete, no input event
\* run_app handles (a key or a mouse click) changes scroll_offset,
\* selected_index or the click record.
C21_AsStated ==
    [][(reads' = reads + 1 /\ ~animation_complete) =>
        UNCHANGED << scroll_offset, selected_index, last_click_time,
                     last_click_index >>]_vars

\* What C22 states of a click on row r in the Rect with top T and bottom B,
\* with k = r - T - 1 + scroll_offset: inside the borders and within the
\* visible nodes, the node selected or opened is visible_indices[k]; for
\* every other row nothing changes.
ClickMapped(r, area) ==
    LET T == area.top
        B == area.bottom
        k == r - T - 1 + scroll_offset
        v == get_visible_node_indices
    IN  IF T < r /\ r < B - 1 /\ k < Len(v)
        THEN /\ ~panicked'
             /\ \/ /\ selected_index' = Some(v[k + 1])
                    /\ last_click_index' = Some(v[k + 1])
                    /\ opened' = None
                \/ /\ opened' = Some(v[k + 1])
                    /\ UNCHANGED selected_index
        ELSE /\ ~panicked'
             /\ opened' = None
             /\ UNCHANGED << selected_index, scroll_offset, preview_contents,
                             preview_scroll_offset, last_click_time,
                             last_click_index >>

AllVisible == get_visible_node_indices = [i \in 1..Len(nodes) |-> i - 1]

\* C23: in every reachable state animation_depth <= max_depth + 1; when
\* animation_complete is true, animation_depth = max_depth + 1 and every
\* node is visible; so a click is accepted (it opened a node, or left its
\* record) only with the whole tree revealed.
C23_DepthBound ==
    /\ animation_depth <= stats.max_depth + 1
    /\ animation_complete =>
            /\ animation_depth = stats.max_depth + 1
            /\ AllVisible
    /\ (IsSome(opened) \/ IsSome(last_click_index)) =>
            /\ animation_complete
            /\ AllVisible

\* A click accepted on a tree of two levels or more, the animation complete.
C23_Witness ==
    /\ animation_complete
    /\ animation_depth = stats.max_depth + 1
    /\ stats.max_depth >= 1
    /\ Len(nodes) >= 2
    /\ last_op = "handle_mouse_click"
    /\ IsSome(last_click_index)

\* The step assigns selected_index: it changes it, or it is a click that
\* selects (and so writes a new record of itself).
SelectionAssigned ==
    \/ selected_index' # selected_index
    \/ /\ last_op' = "handle_mouse_click"
       /\ IsSome(last_click_index')
       /\ << last_click_time, last_click_index >>' #
              << last_click_time, last_click_index >>

\* C24: in every reachable state with a selection, preview_contents is the
\* list update_preview loads for the selected index; every assignment to
\* selected_index (the initial one, a selecting click, a move of the
\* selection) comes in the same step with a reload that replaces the list
\* and resets preview_scroll_offset to 0; and ticks and tree scrolling leave
\* the list and its offset unchanged.
C24_PreviewTracksSelection ==
    /\ [](IsSome(selected_index) =>
            preview_contents = PreviewOf(walk, nodes, Unwrap(selected_index)))
    /\ [][/\ SelectionAssigned =>
                /\ preview_contents' =
                        PreviewOf(walk, nodes, Unwrap(selected_index'))
                /\ preview_scroll_offset' = 0
          /\ last_op' \in {"increment_animation", "scroll_up", "scroll_down"} =>
                UNCHANGED << preview_contents, preview_scroll_offset >>]_vars

\* A click selected a node other than the root and loaded its children.
C24_Witness ==
    /\ last_op = "handle_mouse_click"
    /\ IsSome(selected_index)
    /\ Unwrap(selected_index) >= 1
    /\ last_click_index = selected_index
    /\ last_click_time = Some(0)
    /\ preview_contents # << >>
    /\ preview_scroll_offset = 0

====
